---- MODULE Spec2Model ----
(***************************************************************************)
(* Model of core/api/postgres_api.py: the PostgresAPI store (headings,     *)
(* sentences, entities, normalizations, frames and their SERIAL            *)
(* sequences) and the operations that write and query it.  Every SQL       *)
(* statement is translated by what PostgreSQL does with it on the schema   *)
(* of create_schema; Python text conversions (str(), slicing, str_conv)    *)
(* are modelled on sequences of one-character strings.  A statement that   *)
(* raises changes no table (its sequence value stays taken), and the next  *)
(* call starts from the store as it stands, the connection rolled back by  *)
(* the caller with autocommit set.                                         *)
(***************************************************************************)
EXTENDS Integers, Sequences, FiniteSets, Bags, TLC

VARIABLES headings, headings_seq, sentences, sentences_seq,
          entities, entities_seq, normalizations, frames, resp

vars == <<headings, headings_seq, sentences, sentences_seq,
          entities, entities_seq, normalizations, frames, resp>>

\* ------------------------------------------------------------ constants

ERROR_TOLERANCE == 5
MAX_ENTITY_LENGTH == 50
ROOT_NODE_NAME == "ROOT"

\* Python None, bound as SQL NULL.
None == -1

\* ------------------------------------------------- Python text helpers

DigitChar == <<"0", "1", "2", "3", "4", "5", "6", "7", "8", "9">>

IsDigit(c) == \E d \in 1..10 : DigitChar[d] = c

DigitVal(c) == (CHOOSE d \in 1..10 : DigitChar[d] = c) - 1

RECURSIVE IntStr(_)
\* str(n) of a non-negative int
IntStr(n) == IF n < 10 THEN <<DigitChar[n + 1]>>
             ELSE IntStr(n \div 10) \o <<DigitChar[(n % 10) + 1]>>

RECURSIVE ParseInt(_)
\* integer input conversion of a string of digits
ParseInt(s) == IF Len(s) = 0 THEN 0
               ELSE 10 * ParseInt(SubSeq(s, 1, Len(s) - 1)) + DigitVal(s[Len(s)])

RECURSIVE Flatten(_)
Flatten(ss) == IF Len(ss) = 0 THEN <<>> ELSE Head(ss) \o Flatten(Tail(ss))

RECURSIVE Join(_, _)
\* sep.join(parts), parts a sequence of strings
Join(parts, sep) == IF Len(parts) = 0 THEN <<>>
                    ELSE IF Len(parts) = 1 THEN parts[1]
                    ELSE parts[1] \o sep \o Join(Tail(parts), sep)

RECURSIVE SortedInts(_)
SortedInts(S) == IF S = {} THEN <<>>
                 ELSE LET m == CHOOSE x \in S : \A y \in S : x <= y
                      IN  <<m>> \o SortedInts(S \ {m})

\* One iteration order of a set (Python leaves the order of a set open; every
\* use below is independent of it).
SetToSeq(S) == CHOOSE f \in [1..Cardinality(S) -> S] : \A i, j \in 1..Cardinality(S) : f[i] = f[j] => i = j

\* str() of a set of ints: "set()" when empty, else "{1, 2}"
PyStrIntSet(S) ==
    IF S = {} THEN <<"s", "e", "t", "(", ")">>
    ELSE <<"{">> \o Join([i \in 1..Cardinality(S) |-> IntStr(SortedInts(S)[i])], <<",", " ">>) \o <<"}">>

\* str() of a list of ints: "[1, 2]"
PyStrIntList(L) ==
    <<"[">> \o Join([i \in 1..Len(L) |-> IntStr(L[i])], <<",", " ">>) \o <<"]">>

\* str() of a set of strings: "set()" when empty, else "{'a', 'b'}"
PyStrStrSet(S) ==
    IF S = {} THEN <<"s", "e", "t", "(", ")">>
    ELSE <<"{">> \o Join([i \in 1..Cardinality(S) |-> <<"'">> \o SetToSeq(S)[i] \o <<"'">>], <<",", " ">>) \o <<"}">>

\* s[1:-1]
Slice(s) == SubSeq(s, 2, Len(s) - 1)

\* "%s%s%s" % (start, '' if len(iterable) > 0 else str(iterable)[1:-1], end)
str_conv(iterable_len, iterable_str) ==
    <<"{">> \o (IF iterable_len > 0 THEN <<>> ELSE Slice(iterable_str)) \o <<"}">>

\* ------------------------------------------------------ SQL text input

RECURSIVE SplitOn(_, _)
\* the pieces of s between occurrences of the character c
SplitOn(s, c) ==
    IF \A i \in 1..Len(s) : s[i] # c THEN <<s>>
    ELSE LET k == CHOOSE i \in 1..Len(s) : s[i] = c /\ \A j \in 1..(i - 1) : s[j] # c
         IN  <<SubSeq(s, 1, k - 1)>> \o SplitOn(SubSeq(s, k + 1, Len(s)), c)

RECURSIVE Trim(_)
Trim(s) == IF Len(s) > 0 /\ s[1] = " " THEN Trim(Tail(s))
           ELSE IF Len(s) > 0 /\ s[Len(s)] = " " THEN Trim(SubSeq(s, 1, Len(s) - 1))
           ELSE s

\* the items of a comma separated list as it stands in a statement or literal
ListItems(s) == IF Len(Trim(s)) = 0 THEN <<>>
                ELSE [i \in 1..Len(SplitOn(s, ",")) |-> Trim(SplitOn(s, ",")[i])]

\* array_in for INTEGER[]: '{}' is the empty array, '{1,2}' holds 1 and 2
IntArrayIn(lit) ==
    LET items == ListItems(Slice(lit))
    IN  [i \in 1..Len(items) |-> ParseInt(items[i])]

\* array_in for TEXT[]
TextArrayIn(lit) == ListItems(Slice(lit))

\* the integers of "IN (1, 2)"
IntInList(s) == {ParseInt(ListItems(s)[i]) : i \in 1..Len(ListItems(s))}

\* the strings of "IN ('a', 'b')"
StrInList(s) == {Slice(ListItems(s)[i]) : i \in 1..Len(ListItems(s))}

\* ------------------------------------------------------------ headings

HeadingIds(H) == {h.heading_id : h \in H}

\* Mutant: the table has no UNIQUE(heading, parent_id), nothing conflicts.
HeadingConflict_NoUnique(H, heading, parent_id) == {}

\* Mutant: the conflict target is the heading text alone.
HeadingConflict_TextOnly(H, heading, parent_id) == {h \in H : h.heading = heading}

\* Rows that conflict with (heading, parent_id) under UNIQUE(heading, parent_id);
\* a NULL parent_id never conflicts.
HeadingConflict(H, heading, parent_id) ==
    {h \in H : h.heading = heading /\ parent_id # None /\ h.parent_id = parent_id}

\* Mutant: parent_id carries no foreign key.
HeadingFkOk_NoReference(H, parent_id) == TRUE

\* parent_id INTEGER REFERENCES semantic_kb.headings(heading_id)
HeadingFkOk(H, parent_id) == parent_id = None \/ parent_id \in HeadingIds(H)

\* parent_id if parent_id else 1
ParentParam(parent_id) == IF parent_id # None /\ parent_id # 0 THEN parent_id ELSE 1

\* insert_heading on the table H with sequence value seq: the table and sequence
\* after, whether the statement succeeded, and the id returned.  nextval is
\* taken for the proposed row before the conflict and the foreign key are
\* looked at, so the sequence advances on every call.
insert_heading(H, seq, heading, parent_id) ==
    LET p == ParentParam(parent_id)
        new_id == seq + 1
        hit == HeadingConflict(H, heading, p)
    IN  IF hit # {}
        THEN LET old == CHOOSE h \in hit : TRUE
             IN  [H |-> (H \ {old}) \cup {[old EXCEPT !.parent_id = p]},
                  seq |-> new_id, ok |-> TRUE,
                  ret |-> IF old.heading_id # 0 THEN old.heading_id ELSE 1]
        ELSE IF ~HeadingFkOk(H, p)
        THEN [H |-> H, seq |-> new_id, ok |-> FALSE, ret |-> "IntegrityError"]
        ELSE [H |-> H \cup {[heading_id |-> new_id, heading |-> heading, parent_id |-> p]},
              seq |-> new_id, ok |-> TRUE, ret |-> new_id]

RECURSIVE insert_headings_loop(_, _, _, _)
\* for heading in headings: current_parent = self.insert_heading(heading, current_parent)
insert_headings_loop(H, seq, hs, current_parent) ==
    IF Len(hs) = 0
    THEN [H |-> H, seq |-> seq, ok |-> TRUE, ret |-> current_parent]
    ELSE LET r == insert_heading(H, seq, Head(hs), current_parent)
         IN  IF r.ok THEN insert_headings_loop(r.H, r.seq, Tail(hs), r.ret) ELSE r

\* insert_headings: int(current_parent) raises TypeError on None (an empty list)
insert_headings(H, seq, hs) ==
    LET r == insert_headings_loop(H, seq, hs, None)
    IN  IF r.ok /\ r.ret = None THEN [r EXCEPT !.ok = FALSE, !.ret = "TypeError"] ELSE r

\* ----------------------------------------------------------- hierarchy

RECURSIVE traverse_down(_, _)
\* the recursive term of traverse_down, applied until nothing new is found
traverse_down(H, rows) ==
    LET more == {[heading_id |-> h.heading_id, heading |-> h.heading,
                  parent_id |-> h.parent_id, index |-> r.index + 1] :
                    <<h, r>> \in {hr \in H \X rows : hr[1].parent_id = hr[2].heading_id}}
    IN  IF more \subseteq rows THEN rows ELSE traverse_down(H, rows \cup more)

RECURSIVE traverse_both_IndexUp(_, _)
\* Mutant: the upward walk counts the index up instead of down.
traverse_both_IndexUp(H, rows) ==
    LET more == {[heading_id |-> h.heading_id, heading |-> h.heading,
                  parent_id |-> h.parent_id, index |-> r.index + 1] :
                    <<h, r>> \in {hr \in H \X rows : hr[1].heading_id = hr[2].parent_id}}
    IN  IF more \subseteq rows THEN rows ELSE traverse_both_IndexUp(H, rows \cup more)

RECURSIVE traverse_both(_, _)
\* the recursive term of traverse_both, from the rows of traverse_down
traverse_both(H, rows) ==
    LET more == {[heading_id |-> h.heading_id, heading |-> h.heading,
                  parent_id |-> h.parent_id, index |-> r.index - 1] :
                    <<h, r>> \in {hr \in H \X rows : hr[1].heading_id = hr[2].parent_id}}
    IN  IF more \subseteq rows THEN rows ELSE traverse_both(H, rows \cup more)

RECURSIVE OrderByIndexId(_)
\* ORDER BY index ASC, heading_id ASC
OrderByIndexId(rows) ==
    IF rows = {} THEN <<>>
    ELSE LET m == CHOOSE r \in rows : \A o \in rows :
                      r.index < o.index \/ (r.index = o.index /\ r.heading_id <= o.heading_id)
         IN  <<m>> \o OrderByIndexId(rows \ {m})

\* semantic_kb.get_hierarchy(id): rows (heading_id, heading, index)
get_hierarchy(H, id) ==
    LET seed == {[heading_id |-> h.heading_id, heading |-> h.heading,
                  parent_id |-> h.parent_id, index |-> 0] : h \in {x \in H : x.heading_id = id}}
        down == traverse_down(H, seed)
        both == traverse_both(H, down)
        sorted == OrderByIndexId(both)
    IN  [i \in 1..Len(sorted) |->
            [heading_id |-> sorted[i].heading_id, heading |-> sorted[i].heading,
             index |-> sorted[i].index]]

get_heading_hierarchy(H, heading_id) == get_hierarchy(H, heading_id)

\* ------------------------------------------------- sentences, entities

SentenceIds(S) == {s.sentence_id : s \in S}

\* Rows that conflict under UNIQUE(sentence, heading_id); NULL never conflicts.
SentenceConflict(S, sentence, heading_id) ==
    {s \in S : s.sentence = sentence /\ heading_id # None /\ s.heading_id = heading_id}

\* The value bound for the heading_id column: the argument as it is, None
\* included (an explicit NULL; DEFAULT 1 applies only to an omitted column).
HeadingIdParam(heading_id) == heading_id

\* INSERT INTO semantic_kb.sentences ... ON CONFLICT (sentence, heading_id)
\* DO UPDATE SET sentence = EXCLUDED.sentence RETURNING sentence_id
insert_sentence_row(S, seq, H, sentence, dependencies, heading_id) ==
    LET hid == HeadingIdParam(heading_id)
        new_id == seq + 1
        deps == TextArrayIn(str_conv(Cardinality(dependencies), PyStrStrSet(dependencies)))
        hit == SentenceConflict(S, sentence, hid)
    IN  IF hit # {}
        THEN [S |-> S, seq |-> new_id, ok |-> TRUE,
              ret |-> (CHOOSE s \in hit : TRUE).sentence_id]
        ELSE IF ~(hid = None \/ hid \in HeadingIds(H))
        THEN [S |-> S, seq |-> new_id, ok |-> FALSE, ret |-> "IntegrityError"]
        ELSE [S |-> S \cup {[sentence_id |-> new_id, sentence |-> sentence,
                             dependencies |-> deps, heading_id |-> hid]},
              seq |-> new_id, ok |-> TRUE, ret |-> new_id]

\* INSERT INTO semantic_kb.entities (entity) VALUES (?) ON CONFLICT (entity)
\* DO UPDATE SET entity = EXCLUDED.entity RETURNING entity_id
insert_entity(E, seq, entity) ==
    LET hit == {e \in E : e.entity = entity}
    IN  IF hit # {}
        THEN [E |-> E, seq |-> seq + 1, ret |-> (CHOOSE e \in hit : TRUE).entity_id]
        ELSE [E |-> E \cup {[entity_id |-> seq + 1, entity |-> entity]},
              seq |-> seq + 1, ret |-> seq + 1]

RECURSIVE insert_entities_loop(_, _, _, _, _)
\* for entity in entities: get-or-create the entity, then add one
\* normalizations row (the table has no key: rows repeat)
insert_entities_loop(E, seq, N, sentence_id, order) ==
    IF Len(order) = 0 THEN [E |-> E, seq |-> seq, N |-> N]
    ELSE LET r == insert_entity(E, seq, Head(order))
         IN  insert_entities_loop(r.E, r.seq,
                 N (+) SetToBag({[sentence_id |-> sentence_id, entity_id |-> r.ret]}),
                 sentence_id, Tail(order))

\* insert_sentence; order is the order in which the loop meets the entities
insert_sentence(S, seq, H, E, eseq, N, sentence, order, dependencies, heading_id) ==
    LET r == insert_sentence_row(S, seq, H, sentence, dependencies, heading_id)
        l == insert_entities_loop(E, eseq, N, r.ret, order)
    IN  IF r.ok
        THEN [S |-> r.S, seq |-> r.seq, E |-> l.E, eseq |-> l.seq, N |-> l.N,
              ok |-> TRUE, ret |-> r.ret]
        ELSE [S |-> r.S, seq |-> r.seq, E |-> E, eseq |-> eseq, N |-> N,
              ok |-> FALSE, ret |-> r.ret]

\* -------------------------------------------------------------- frames

\* INSERT INTO semantic_kb.frames (frame, sentence_ids) VALUES (?,?) ON CONFLICT (frame)
\* DO UPDATE SET sentence_ids = frames.sentence_ids || EXCLUDED.sentence_ids
insert_frame(F, frame, sentence_ids_param) ==
    LET hit == {f \in F : f.frame = frame}
        new == IntArrayIn(sentence_ids_param)
    IN  IF hit # {}
        THEN LET old == CHOOSE f \in hit : TRUE
             IN  (F \ {old}) \cup {[old EXCEPT !.sentence_ids = old.sentence_ids \o new]}
        ELSE F \cup {[frame |-> frame, sentence_ids |-> new]}

RECURSIVE insert_frames_loop(_, _, _)
insert_frames_loop(F, sentence_id, order) ==
    IF Len(order) = 0 THEN F
    ELSE insert_frames_loop(
             insert_frame(F, Head(order), str_conv(1, PyStrIntList(<<sentence_id>>))),
             sentence_id, Tail(order))

insert_frames(F, sentence_id, fs) == insert_frames_loop(F, sentence_id, SetToSeq(fs))

\* --------------------------------------------------------------- query

Min2(a, b) == IF a <= b THEN a ELSE b

RECURSIVE LevRow(_, _, _, _, _, _)
\* One row of the distance table: curr[j] for the source character ch, from the
\* row before; curr holds the entries found so far, curr[1] being column 0.
LevRow(prev, curr, ch, target, ins_c, sub_c_del_c) ==
    IF Len(curr) = Len(target) + 1 THEN curr
    ELSE LET j == Len(curr)
             del == prev[j + 1] + sub_c_del_c[2]
             ins == curr[j] + ins_c
             sub == prev[j] + (IF ch = target[j] THEN 0 ELSE sub_c_del_c[1])
         IN  LevRow(prev, Append(curr, Min2(del, Min2(ins, sub))), ch, target, ins_c, sub_c_del_c)

RECURSIVE LevRows(_, _, _, _, _, _, _)
LevRows(prev, i, source, target, ins_c, del_c, sub_c) ==
    IF i > Len(source) THEN prev
    ELSE LevRows(LevRow(prev, <<prev[1] + del_c>>, source[i], target, ins_c, <<sub_c, del_c>>),
                 i + 1, source, target, ins_c, del_c, sub_c)

\* fuzzystrmatch levenshtein(source, target, ins_cost, del_cost, sub_cost):
\* the least cost of turning source into target, by the table of prefix
\* distances, row by row
levenshtein(source, target, ins_c, del_c, sub_c) ==
    LevRows([j \in 1..(Len(target) + 1) |-> (j - 1) * ins_c], 1, source, target,
            ins_c, del_c, sub_c)[Len(target) + 1]

RECURSIVE Like(_, _)
\* s LIKE pattern: % stands for any run of characters, _ for any one character
Like(s, pattern) ==
    IF Len(pattern) = 0 THEN Len(s) = 0
    ELSE IF pattern[1] = "%"
         THEN Like(s, Tail(pattern)) \/ (Len(s) > 0 /\ Like(Tail(s), pattern))
    ELSE IF pattern[1] = "_"
         THEN Len(s) > 0 /\ Like(Tail(s), Tail(pattern))
    ELSE Len(s) > 0 /\ s[1] = pattern[1] /\ Like(Tail(s), Tail(pattern))

\* The WHERE clause of the statement built for one input entity, the input
\* pasted in at every {0}.
FuzzyWhere(entity, input) ==
    /\ Len(entity) < MAX_ENTITY_LENGTH
    /\ Len(entity) >= Len(input)
    /\ \/ Like(entity, input \o <<"%", "%">>)
       \/ Like(entity, <<"%", "%">> \o input)
       \/ levenshtein(entity, input, 2, 1, 2) < ERROR_TOLERANCE

\* The selected rows: entity_id, length(entity), levenshtein(entity, input, 2, 1, 2)
FuzzyRows(E, input) ==
    {[entity_id |-> e.entity_id, entity_length |-> Len(e.entity),
      edit_distance |-> levenshtein(e.entity, input, 2, 1, 2)] :
        e \in {x \in E : FuzzyWhere(x.entity, input)}}

\* ORDER BY entity_length ASC, edit_distance ASC
OrderByPrecedes(a, b) ==
    \/ a.entity_length < b.entity_length
    \/ a.entity_length = b.entity_length /\ a.edit_distance <= b.edit_distance

RECURSIVE OrderBy(_)
\* Every order the sort may put the rows in: rows equal on both sort keys
\* come out in any order.
OrderBy(rows) ==
    IF rows = {} THEN {<<>>}
    ELSE UNION {{<<m>> \o t : t \in OrderBy(rows \ {m})} :
                  m \in {r \in rows : \A o \in rows : OrderByPrecedes(r, o)}}

\* LIMIT 3
Limit(seq) == SubSeq(seq, 1, Min2(3, Len(seq)))

\* What the statement for one input entity may return: sequences of entity ids
FuzzyResults(E, input) ==
    {[i \in 1..Len(Limit(o)) |-> Limit(o)[i].entity_id] : o \in OrderBy(FuzzyRows(E, input))}

Range(f) == {f[i] : i \in DOMAIN f}

\* get_matching_entity_ids: every set of ids the loop may collect
get_matching_entity_ids(E, input_entities) ==
    {UNION {Range(pick[q]) : q \in input_entities} :
        pick \in {f \in [input_entities -> UNION {FuzzyResults(E, q) : q \in input_entities}] :
                    \A q \in input_entities : f[q] \in FuzzyResults(E, q)}}

\* cursor.execute(operation, args) with a str for args: the driver takes one
\* parameter per element of args, here per character; a statement with one
\* placeholder accepts exactly one.
BindOne(args) ==
    IF Len(args) = 1 /\ IsDigit(args[1])
    THEN [ok |-> TRUE, value |-> ParseInt(args)]
    ELSE [ok |-> FALSE, value |-> None]

\* get_entity_matching_sent_ids
get_entity_matching_sent_ids(N, input_entity_ids) ==
    IF input_entity_ids = {} THEN [ok |-> TRUE, ret |-> {}]
    ELSE LET entity_param == Slice(PyStrIntSet(input_entity_ids))
             b == BindOne(entity_param)
         IN  IF b.ok
             THEN [ok |-> TRUE,
                   ret |-> {n.sentence_id : n \in {x \in BagToSet(N) : x.entity_id = b.value}}]
             ELSE [ok |-> FALSE, ret |-> "ProgrammingError"]

\* unnest(sentence_ids) of every frames row: (frame, sentence_id) pairs
FrameUnnest(F) ==
    UNION {{[frame |-> f.frame, sentence_id |-> f.sentence_ids[i]] : i \in 1..Len(f.sentence_ids)} : f \in F}

\* filter_sent_ids_by_frames
filter_sent_ids_by_frames(F, sent_ids, input_frames) ==
    IF sent_ids = {} \/ input_frames = {} THEN {}
    ELSE LET sent_param == Slice(PyStrIntSet(sent_ids))
             frame_param == Slice(PyStrStrSet(input_frames))
             rows == {u.sentence_id : u \in {x \in FrameUnnest(F) :
                          x.sentence_id \in IntInList(sent_param)
                          /\ x.frame \in StrInList(frame_param)}}
         IN  sent_ids \cap rows

\* The last step of query_sentence_ids
SelectResult(entity_matching_sent_ids, frame_filtered_sent_ids) ==
    IF Cardinality(frame_filtered_sent_ids) > 0
    THEN frame_filtered_sent_ids
    ELSE entity_matching_sent_ids

\* query_sentence_ids with the entity ids the first step collected
query_sentence_ids(N, F, entity_ids, fs) ==
    LET m == get_entity_matching_sent_ids(N, entity_ids)
    IN  IF ~m.ok THEN m
        ELSE [ok |-> TRUE,
              ret |-> SelectResult(m.ret, filter_sent_ids_by_frames(F, m.ret, fs))]

\* ------------------------------------------------------------ grouping

\* SQL NULL in a text column.  A text is a sequence of pieces, and the text
\* string_agg builds has at least one, so the empty sequence is free to stand
\* for NULL.
NullText == <<>>

\* string_agg(GH.heading, ' > ') over get_hierarchy(heading_id) rows with
\* index <= 0, NULL when there is no row
HeadingPath(H, heading_id) ==
    LET gh == get_hierarchy(H, heading_id)
        kept == SelectSeq(gh, LAMBDA r : r.index <= 0)
    IN  IF Len(kept) = 0 THEN NullText
        ELSE Join([i \in 1..Len(kept) |-> <<kept[i].heading>>], <<" > ">>)

\* MIN(sentence_id) / MAX(sentence_id) over S.heading_id = SENT.heading_id;
\* NULL equals nothing, and MIN and MAX of no row are NULL
FirstSentenceId(S, heading_id) ==
    LET ids == {s.sentence_id : s \in {x \in S : heading_id # None /\ x.heading_id = heading_id}}
    IN  IF ids = {} THEN None ELSE CHOOSE x \in ids : \A y \in ids : x <= y

LastSentenceId(S, heading_id) ==
    LET ids == {s.sentence_id : s \in {x \in S : heading_id # None /\ x.heading_id = heading_id}}
    IN  IF ids = {} THEN None ELSE CHOOSE x \in ids : \A y \in ids : x >= y

\* group_sentences_by_heading: the rows fetched (their order is left open by
\* the statement and is not modelled)
group_sentences_by_heading(S, H, sentence_ids) ==
    IF sentence_ids = {} THEN {}
    ELSE LET sentence_id_param == Slice(PyStrIntSet(sentence_ids))
             sel == {s \in S : s.sentence_id \in IntInList(sentence_id_param)}
         IN  {[heading_id |-> g,
               heading |-> HeadingPath(H, g),
               sentence_ids |-> SortedInts({s.sentence_id : s \in {x \in sel : x.heading_id = g}}),
               first_sentence_id |-> FirstSentenceId(S, g),
               last_sentence_id |-> LastSentenceId(S, g)] : g \in {s.heading_id : s \in sel}}

\* -------------------------------------------------------------- bounds

\* Largest value the headings sequence reaches in SpecTree.
TreeMaxHeadingSeq == 6
\* Largest value the headings and sentences sequences reach in SpecIngest.
IngestMaxHeadingSeq == 3
IngestMaxSentenceSeq == 2
\* Largest value the headings and sentences sequences reach in SpecGroup.
GroupMaxHeadingSeq == 3
GroupMaxSentenceSeq == 3
\* Largest value the sentences and entities sequences reach in SpecQuery.
QueryMaxSentenceSeq == 2
QueryMaxEntitySeq == 3
\* Most entities of a vocabulary in SpecFuzzy.
MaxVocab == 4

\* --------------------------------------------------------------- inputs

HeadingTexts == {"Intro", "Background"}
HeadingChains == {<<>>, <<"Intro">>, <<"Intro", "Background">>, <<"Intro", "Intro">>}
SentenceTexts == {"Barack_PERSON was_VBD born_VBN", "Hawaii_GPE is_VBZ"}
EntityTexts == {<<"a", "b", "c">>, <<"x", "y", "z">>}
QueryTexts == {<<"a", "b">>, <<"x", "y", "z">>}
DependencySets == {{}, {<<"n", "s", "u", "b", "j">>}}
FrameLabels == {<<"f">>, <<"g">>}
\* The vocabulary SpecFuzzy draws from, the last of MAX_ENTITY_LENGTH characters,
\* and its query strings.
FuzzyEntityTexts ==
    {<<"a">>, <<"a", "b">>, <<"a", "c">>, <<"b", "a">>, <<"b", "b", "b">>,
     <<"a", "b", "b", "b", "b", "b">>, [i \in 1..MAX_ENTITY_LENGTH |-> "a"]}
FuzzyQueryTexts == {<<"a">>, <<"a", "b">>, <<"a", "a", "a">>, <<"_", "_", "_">>}

\* Every order a loop over the set may take.
Orders(set) == {f \in [1..Cardinality(set) -> set] : \A i, j \in 1..Cardinality(set) : f[i] = f[j] => i = j}

\* ---------------------------------------------------------------- state

\* initialize_db: the schema is created and the ROOT heading inserted, which
\* takes the first value of the headings sequence.
Init ==
    /\ headings = {[heading_id |-> 1, heading |-> ROOT_NODE_NAME, parent_id |-> None]}
    /\ headings_seq = 1
    /\ sentences = {}
    /\ sentences_seq = 0
    /\ entities = {}
    /\ entities_seq = 0
    /\ normalizations = EmptyBag
    /\ frames = {}
    /\ resp = [op |-> "initialize_db", args |-> <<>>, ok |-> TRUE, ret |-> None]

Call_insert_heading(heading, parent_id) ==
    LET r == insert_heading(headings, headings_seq, heading, parent_id)
    IN  /\ headings' = r.H
        /\ headings_seq' = r.seq
        /\ resp' = [op |-> "insert_heading", args |-> <<heading, parent_id>>,
                    ok |-> r.ok, ret |-> r.ret]
        /\ UNCHANGED <<sentences, sentences_seq, entities, entities_seq, normalizations, frames>>

Call_insert_headings(hs) ==
    LET r == insert_headings(headings, headings_seq, hs)
    IN  /\ headings' = r.H
        /\ headings_seq' = r.seq
        /\ resp' = [op |-> "insert_headings", args |-> <<hs>>, ok |-> r.ok, ret |-> r.ret]
        /\ UNCHANGED <<sentences, sentences_seq, entities, entities_seq, normalizations, frames>>

Call_insert_sentence(sentence, ents, dependencies, heading_id) ==
    \E order \in Orders(ents) :
        LET r == insert_sentence(sentences, sentences_seq, headings, entities, entities_seq,
                                 normalizations, sentence, order, dependencies, heading_id)
        IN  /\ sentences' = r.S
            /\ sentences_seq' = r.seq
            /\ entities' = r.E
            /\ entities_seq' = r.eseq
            /\ normalizations' = r.N
            /\ resp' = [op |-> "insert_sentence",
                        args |-> <<sentence, ents, dependencies, heading_id>>,
                        ok |-> r.ok, ret |-> r.ret]
            /\ UNCHANGED <<headings, headings_seq, frames>>

Call_insert_frames(sentence_id, fs) ==
    /\ frames' = insert_frames(frames, sentence_id, fs)
    /\ resp' = [op |-> "insert_frames", args |-> <<sentence_id, fs>>, ok |-> TRUE, ret |-> None]
    /\ UNCHANGED <<headings, headings_seq, sentences, sentences_seq, entities, entities_seq,
                   normalizations>>

Call_get_heading_hierarchy(heading_id) ==
    /\ resp' = [op |-> "get_heading_hierarchy", args |-> <<heading_id>>, ok |-> TRUE,
                ret |-> get_heading_hierarchy(headings, heading_id)]
    /\ UNCHANGED <<headings, headings_seq, sentences, sentences_seq, entities, entities_seq,
                   normalizations, frames>>

Call_query_sentence_ids(ents, fs) ==
    \E entity_ids \in get_matching_entity_ids(entities, ents) :
        LET r == query_sentence_ids(normalizations, frames, entity_ids, fs)
        IN  /\ resp' = [op |-> "query_sentence_ids", args |-> <<ents, fs>>,
                        ok |-> r.ok, ret |-> r.ret]
            /\ UNCHANGED <<headings, headings_seq, sentences, sentences_seq, entities,
                           entities_seq, normalizations, frames>>

Call_group_sentences_by_heading(sentence_ids) ==
    /\ resp' = [op |-> "group_sentences_by_heading", args |-> <<sentence_ids>>, ok |-> TRUE,
                ret |-> group_sentences_by_heading(sentences, headings, sentence_ids)]
    /\ UNCHANGED <<headings, headings_seq, sentences, sentences_seq, entities, entities_seq,
                   normalizations, frames>>

\* The statement get_matching_entity_ids runs for one input entity.
Call_fuzzy_match(input) ==
    \E r \in FuzzyResults(entities, input) :
        /\ resp' = [op |-> "fuzzy_match", args |-> <<input>>, ok |-> TRUE, ret |-> r]
        /\ UNCHANGED <<headings, headings_seq, sentences, sentences_seq, entities,
                       entities_seq, normalizations, frames>>

\* ------------------------------------------------------- specifications

\* The heading tree: insert_heading, insert_headings, get_heading_hierarchy.
NextTree ==
    \/ \E h \in HeadingTexts, p \in {None} \cup 0..TreeMaxHeadingSeq :
          headings_seq < TreeMaxHeadingSeq /\ Call_insert_heading(h, p)
    \/ \E hs \in HeadingChains :
          headings_seq + Len(hs) <= TreeMaxHeadingSeq /\ Call_insert_headings(hs)
    \/ \E id \in 1..TreeMaxHeadingSeq : Call_get_heading_hierarchy(id)

SpecTree == Init /\ [][NextTree]_vars

\* Ingestion: headings and the sentences filed under them.
NextIngest ==
    \/ \E h \in HeadingTexts, p \in {None} \cup 1..IngestMaxHeadingSeq :
          headings_seq < IngestMaxHeadingSeq /\ Call_insert_heading(h, p)
    \/ \E hs \in HeadingChains :
          headings_seq + Len(hs) <= IngestMaxHeadingSeq /\ Call_insert_headings(hs)
    \/ \E s \in SentenceTexts, h \in {None} \cup 1..IngestMaxHeadingSeq :
          /\ sentences_seq < IngestMaxSentenceSeq
          /\ Call_insert_sentence(s, {}, {}, h)

SpecIngest == Init /\ [][NextIngest]_vars

\* Filing sentences under a chain of headings and grouping them.
NextGroup ==
    \/ \E hs \in HeadingChains :
          headings_seq + Len(hs) <= GroupMaxHeadingSeq /\ Call_insert_headings(hs)
    \/ \E s \in SentenceTexts, h \in {None} \cup 1..GroupMaxHeadingSeq :
          /\ sentences_seq < GroupMaxSentenceSeq
          /\ Call_insert_sentence(s, {}, {}, h)
    \/ \E ids \in SUBSET (1..GroupMaxSentenceSeq) : Call_group_sentences_by_heading(ids)

SpecGroup == Init /\ [][NextGroup]_vars

\* Entities, frames and the query.
NextQuery ==
    \/ \E es \in SUBSET EntityTexts, ds \in DependencySets :
          /\ sentences_seq < QueryMaxSentenceSeq
          /\ entities_seq + Cardinality(es) <= QueryMaxEntitySeq
          /\ Call_insert_sentence("Barack_PERSON was_VBD born_VBN", es, ds, None)
    \/ \E sid \in 1..QueryMaxSentenceSeq, fs \in SUBSET FrameLabels :
          Call_insert_frames(sid, fs)
    \/ \E es \in SUBSET QueryTexts, fs \in SUBSET FrameLabels :
          Call_query_sentence_ids(es, fs)

SpecQuery == Init /\ [][NextQuery]_vars

\* One query statement of get_matching_entity_ids on a vocabulary.  The store
\* starts where initialize_db and one insert_sentence call with the vocabulary
\* as its entities (met in any order) leave it.
InitFuzzy ==
    \E vocab \in SUBSET FuzzyEntityTexts :
        /\ Cardinality(vocab) <= MaxVocab
        /\ \E order \in Orders(vocab) :
              LET r == insert_sentence({}, 0,
                           {[heading_id |-> 1, heading |-> ROOT_NODE_NAME, parent_id |-> None]},
                           {}, 0, EmptyBag, "Hawaii_GPE is_VBZ", order, {}, None)
              IN  /\ headings = {[heading_id |-> 1, heading |-> ROOT_NODE_NAME, parent_id |-> None]}
                  /\ headings_seq = 1
                  /\ sentences = r.S
                  /\ sentences_seq = r.seq
                  /\ entities = r.E
                  /\ entities_seq = r.eseq
                  /\ normalizations = r.N
                  /\ frames = {}
                  /\ resp = [op |-> "insert_sentence",
                             args |-> <<"Hawaii_GPE is_VBZ", vocab, {}, None>>,
                             ok |-> r.ok, ret |-> r.ret]

NextFuzzy == \E input \in FuzzyQueryTexts : Call_fuzzy_match(input)

SpecFuzzy == InitFuzzy /\ [][NextFuzzy]_vars

\* ------------------------------------------------- the heading tree

HeadingRow(H, id) == CHOOSE h \in H : h.heading_id = id

RECURSIVE AncestorAt(_, _, _)
\* The heading k parent steps above id in H; None once the walk has left H.
AncestorAt(H, id, k) ==
    IF id \notin HeadingIds(H) THEN None
    ELSE IF k = 0 THEN id
    ELSE AncestorAt(H, HeadingRow(H, id).parent_id, k - 1)

RootRow == [heading_id |-> 1, heading |-> ROOT_NODE_NAME, parent_id |-> None]

HeadingTreeOk(H) ==
    /\ \A a, b \in H : a.heading_id = b.heading_id => a = b
    /\ {h \in H : h.parent_id = None} = {RootRow}
    /\ \A h \in H : h # RootRow => h.parent_id \in HeadingIds(H)
    /\ \A h \in H : \E k \in 0..Cardinality(H) : AncestorAt(H, h.heading_id, k) = 1

C6_HeadingIdempotent ==
    [][/\ (resp.op = "insert_heading" /\ resp.ok
             /\ resp'.op = "insert_heading" /\ resp'.args = resp.args)
          => (resp'.ok /\ resp'.ret = resp.ret /\ headings' = headings)
       /\ (resp.op = "insert_headings" /\ resp.ok
             /\ resp'.op = "insert_headings" /\ resp'.args = resp.args)
          => (resp'.ok /\ resp'.ret = resp.ret /\ headings' = headings)]_vars

\* C6 witness: a chain of two headings has been inserted again: the call
\* returned the deepest heading's id, which the sequence had passed before the
\* call took its two values.
C6_Witness ==
    /\ resp.op = "insert_headings"
    /\ resp.ok
    /\ Len(resp.args[1]) = 2
    /\ resp.ret <= headings_seq - 2
    /\ HeadingRow(headings, resp.ret).parent_id # 1

\* The case of C7 on a step: insert_heading(t, p2) is called with an existing
\* parent p2 while a heading with text t stands under another parent and none
\* under p2.
RefileCall ==
    /\ resp'.op = "insert_heading"
    /\ resp'.args[2] \in HeadingIds(headings)
    /\ \E h \in headings : h.heading = resp'.args[1] /\ h.parent_id # resp'.args[2]
    /\ ~\E h \in headings : h.heading = resp'.args[1] /\ h.parent_id = resp'.args[2]

\* C7 as stated: the call returns the existing heading's id, sets that
\* heading's parent_id to p2, and adds no heading with text t.
C7_Original ==
    [][RefileCall =>
         /\ resp'.ok
         /\ \E old \in headings :
              /\ old.heading = resp'.args[1]
              /\ resp'.ret = old.heading_id
              /\ [old EXCEPT !.parent_id = resp'.args[2]] \in headings'
         /\ Cardinality({h \in headings' : h.heading = resp'.args[1]})
              = Cardinality({h \in headings : h.heading = resp'.args[1]})]_vars

\* C7 amended: the call is accepted and adds a heading (t, p2) with an id no
\* heading had, which it returns; every heading that existed, the one with
\* text t included, keeps its id and its parent.
C7_NewHeadingUnderOtherParent ==
    [][RefileCall =>
         /\ resp'.ok
         /\ resp'.ret \notin HeadingIds(headings)
         /\ headings' = headings \cup {[heading_id |-> resp'.ret, heading |-> resp'.args[1],
                                        parent_id |-> resp'.args[2]]}]_vars

\* C7 witness: insert_heading has just returned a heading under a parent other
\* than ROOT while an older heading with the same text stands under another
\* parent.
C7_Witness ==
    /\ resp.op = "insert_heading"
    /\ resp.ok
    /\ resp.ret = headings_seq
    /\ resp.args[2] \notin {None, 0, 1}
    /\ \E h \in headings : /\ h.heading = resp.args[1]
                           /\ h.heading_id < resp.ret
                           /\ h.parent_id # resp.args[2]

C2_SentenceIdempotent ==
    [][(resp.op = "insert_sentence" /\ resp.ok /\ resp'.op = "insert_sentence"
          /\ resp'.args[1] = resp.args[1] /\ resp'.args[4] = resp.args[4])
       => (/\ resp'.ok
           /\ resp'.ret = resp.ret
           /\ Cardinality(sentences') = Cardinality(sentences))]_vars

\* ----------------------------------------------- grouping, as claimed

RECURSIVE DepthOf(_, _, _)
\* The number of parent steps from id to ROOT (k counts the steps tried).
DepthOf(H, id, k) == IF AncestorAt(H, id, k) = 1 \/ k > Cardinality(H) THEN k
                     ELSE DepthOf(H, id, k + 1)

\* The texts of the ancestors of id and of id itself, ROOT first, joined
\* with " > ".
DisplayPath(H, id) ==
    LET d == DepthOf(H, id, 0)
    IN  Join([i \in 1..(d + 1) |-> <<HeadingRow(H, AncestorAt(H, id, d + 1 - i)).heading>>],
             <<" > ">>)

FiledUnder(heading_id) == {s.sentence_id : s \in {x \in sentences : x.heading_id = heading_id}}

GroupOk(g, ids) ==
    /\ g.heading_id \in HeadingIds(headings)
    /\ g.sentence_ids = SortedInts(ids \cap FiledUnder(g.heading_id))
    /\ g.heading = DisplayPath(headings, g.heading_id)
    /\ g.heading[1] = ROOT_NODE_NAME
    /\ g.first_sentence_id \in FiledUnder(g.heading_id)
    /\ g.last_sentence_id \in FiledUnder(g.heading_id)
    /\ \A x \in FiledUnder(g.heading_id) : g.first_sentence_id <= x /\ x <= g.last_sentence_id

\* C9: group_sentences_by_heading of a set of stored sentence ids returns one
\* group for every heading that files one of them and no other group; a
\* group's sentence ids are the ids of the set filed under its heading,
\* ascending; its path is the texts from ROOT down to the heading joined with
\* " > "; its first and last ids are the least and greatest id filed under the
\* heading; the empty set gives no group.
C9_GroupingCorrect ==
    (resp.op = "group_sentences_by_heading" /\ resp.args[1] \subseteq SentenceIds(sentences)) =>
        /\ resp.args[1] = {} => resp.ret = {}
        /\ \A g \in resp.ret : GroupOk(g, resp.args[1])
        /\ \A a, b \in resp.ret : a.heading_id = b.heading_id => a = b
        /\ \A id \in resp.args[1] : \E g \in resp.ret : id \in Range(g.sentence_ids)
        /\ \A g \in resp.ret : Len(g.sentence_ids) > 0

\* -------------------------------------------------- query, as claimed

\* The sentences with a normalizations row to one of the entity ids.
SentencesOf(entity_ids) ==
    {n.sentence_id : n \in {x \in BagToSet(normalizations) : x.entity_id \in entity_ids}}

\* The sentences of sent_ids that stand in the array of a frame of fs.
InSomeFrame(sent_ids, fs) ==
    {sid \in sent_ids : \E f \in frames : f.frame \in fs /\ sid \in Range(f.sentence_ids)}

\* C3: after insert_frames(sentence_id, frames) every label of frames has a
\* row whose array holds sentence_id once more than before the call.
C3_FrameTaggingRecords ==
    [][resp'.op = "insert_frames" =>
         \A label \in resp'.args[2] :
            \E f \in frames' :
               /\ f.frame = label
               /\ Cardinality({i \in 1..Len(f.sentence_ids) : f.sentence_ids[i] = resp'.args[1]})
                  = 1 + Cardinality({fi \in {x \in frames : x.frame = label} \X (1..QueryMaxSentenceSeq * 8) :
                                        /\ fi[2] <= Len(fi[1].sentence_ids)
                                        /\ fi[1].sentence_ids[fi[2]] = resp'.args[1]})]_vars

\* C5: query_sentence_ids with no frames returns the sentences that have a
\* normalizations row to an entity the fuzzy match returns for one of the
\* input strings, however many entities match.
C5_EntityRetrieval ==
    (resp.op = "query_sentence_ids" /\ resp.args[2] = {}) =>
        /\ resp.ok
        /\ \E ids \in get_matching_entity_ids(entities, resp.args[1]) : resp.ret = SentencesOf(ids)
        /\ resp.args[1] = {} => resp.ret = {}

\* C1: query_sentence_ids returns the entity-matched sentences that stand in
\* a frame of the frame set when there is one, and all entity-matched
\* sentences when there is none.
C1_FrameFallback ==
    resp.op = "query_sentence_ids" =>
        /\ resp.ok
        /\ \E ids \in get_matching_entity_ids(entities, resp.args[1]) :
              LET matched == SentencesOf(ids)
                  filtered == InSomeFrame(matched, resp.args[2])
              IN  /\ resp.ret = IF filtered # {} THEN filtered ELSE matched
                  /\ resp.ret \subseteq matched

\* -------------------------------------------- fuzzy match, as claimed

StartsWith(s, q) == Len(s) >= Len(q) /\ SubSeq(s, 1, Len(q)) = q

EndsWith(s, q) == Len(s) >= Len(q) /\ SubSeq(s, Len(s) - Len(q) + 1, Len(s)) = q

\* The entities of E that qualify for the query q: text length in
\* [len(q), MAX_ENTITY_LENGTH), and a prefix match, a suffix match or an edit
\* distance (insert 2, delete 1, substitute 2) below ERROR_TOLERANCE.
Qualifying(E, q) ==
    {e \in E : /\ Len(q) <= Len(e.entity)
               /\ Len(e.entity) < MAX_ENTITY_LENGTH
               /\ \/ StartsWith(e.entity, q)
                  \/ EndsWith(e.entity, q)
                  \/ levenshtein(e.entity, q, 2, 1, 2) < ERROR_TOLERANCE}

\* a comes before b in the order (text length, edit distance to q, entity id).
RankedBefore(a, b, q) ==
    LET da == levenshtein(a.entity, q, 2, 1, 2)
        db == levenshtein(b.entity, q, 2, 1, 2)
    IN  \/ Len(a.entity) < Len(b.entity)
        \/ Len(a.entity) = Len(b.entity) /\ da < db
        \/ Len(a.entity) = Len(b.entity) /\ da = db /\ a.entity_id < b.entity_id

\* C4: the fuzzy match of a query returns at most 3 entity ids, every one of
\* a qualifying entity, and they are the first 3 of the qualifying entities in
\* the order (text length, edit distance, entity id), so the vocabulary and
\* the query determine the result.
C4_FuzzyMatchBoundAndOrder ==
    resp.op = "fuzzy_match" =>
        LET q == resp.args[1]
            r == resp.ret
            Q == Qualifying(entities, q)
        IN  /\ Len(r) <= 3
            /\ \A i \in 1..Len(r) : \E e \in Q : e.entity_id = r[i]
            /\ Range(r) = {e.entity_id :
                             e \in {x \in Q : Cardinality({o \in Q : RankedBefore(o, x, q)}) < 3}}

====
